---- MODULE Spec2Model ----
(***************************************************************************)
(* A model of pixels-winit-minimal (src/main.rs): the bouncing box         *)
(* (World::new, World::update), the rasteriser (World::draw) and the       *)
(* winit application handler (App::resumed, App::window_event).            *)
(*                                                                         *)
(* The specifications share the variables:                                 *)
(*   Spec        the application under the event loop, from main();        *)
(*   FairSpec    Spec with the loop reading its exit flag;                 *)
(*   SpecWorld   World::update applied repeatedly to World::new();         *)
(*   SpecUpdate  World::update applied repeatedly to any box that starts   *)
(*               inside the surface with unit velocity;                    *)
(*   SpecDraw    World::draw applied to a buffer with arbitrary contents.  *)
(***************************************************************************)
EXTENDS Integers, Sequences, FiniteSets, TLC

VARIABLES
    window,            \* App.window: "None" or "Some"
    pixels,            \* App.pixels: "None" or "Some"
    world,             \* App.world: [box_x, box_y, velocity_x, velocity_y]
    frame,             \* observed bytes of the pixel buffer: byte index -> byte
    frame_len,         \* length in bytes of the pixel buffer
    surface,           \* size <<w, h>> of the presentation surface
    exiting,           \* event_loop.exit() has been called
    loop,              \* "starting", "running", "stopped" or "panicked"
    redraw_requested,  \* window.request_redraw() is pending
    prev,              \* <<w>>: the world the latest update started from
    event,             \* the event the latest handler was called with
    ops,               \* the calls the latest handler made, in order
    count,             \* calls made so far: redraw, update, draw, render, request
    before,            \* observed bytes of the buffer before the latest draw
    presented,         \* observed bytes of the frame render() showed last
    failure,           \* an external operation has failed
    after_failure      \* calls made after the first failure

vars == <<window, pixels, world, frame, frame_len, surface, exiting, loop,
          redraw_requested, prev, event, ops, count, before, presented,
          failure, after_failure>>

(***************************************************************************)
(* Constants of the program.                                               *)
(***************************************************************************)
WIDTH == 320
HEIGHT == 240
BOX_SIZE == 64

I16_MIN == -32768
I16_MAX == 32767

BoxColor == <<94, 72, 232, 255>>     \* [0x5e, 0x48, 0xe8, 0xff]
BgColor == <<72, 178, 232, 255>>     \* [0x48, 0xb2, 0xe8, 0xff]

(***************************************************************************)
(* Bounds of the model.                                                    *)
(***************************************************************************)
MaxRedraws == 3      \* RedrawRequested events handled in a run of Spec
MaxDraws == 2        \* draw calls in a run of SpecDraw
SampleStep == 40     \* Spec observes the pixels of a grid with this step

(***************************************************************************)
(* 16-bit signed arithmetic.  An operation whose exact result is not an    *)
(* i16 overflows: it panics where overflow checks are on and wraps where   *)
(* they are off.                                                           *)
(***************************************************************************)
Overflows(v) == v < I16_MIN \/ v > I16_MAX

WrapI16(v) == ((v - I16_MIN) % 65536) + I16_MIN

(***************************************************************************)
(* World                                                                   *)
(***************************************************************************)
NewWorld == [box_x |-> 24, box_y |-> 16, velocity_x |-> 1, velocity_y |-> 1]

\* Mutants of HitsEdge: the far edge tested without the size of the box, the
\* near edge tested with <, and the far edge tested with >=.
HitsEdge_NoSize(pos, limit) == pos <= 0 \/ pos > limit

HitsEdge_Strict(pos, limit) == pos < 0 \/ WrapI16(pos + BOX_SIZE) > limit

\* The condition of one `if` of update: pos <= 0 || pos + BOX_SIZE > limit.
HitsEdge(pos, limit) == pos <= 0 \/ WrapI16(pos + BOX_SIZE) > limit

\* Mutant of Reflect: the velocity is doubled as it is negated.
Reflect_Double(pos, vel, limit) ==
    IF HitsEdge(pos, limit) THEN WrapI16(vel * (-2)) ELSE vel

\* The velocity after that `if`: velocity *= -1 when the condition holds.
Reflect(pos, vel, limit) == IF HitsEdge(pos, limit) THEN WrapI16(vel * (-1)) ELSE vel

\* Whether that `if` or the += after it overflows.  `||` does not evaluate
\* pos + BOX_SIZE when pos <= 0.
AxisOverflows(pos, vel, limit) ==
    \/ pos > 0 /\ Overflows(pos + BOX_SIZE)
    \/ HitsEdge(pos, limit) /\ Overflows(vel * (-1))
    \/ Overflows(pos + Reflect(pos, vel, limit))

\* Mutant of update: the move uses the velocity the call started with.
update_StaleVelocity(w) ==
    [box_x |-> WrapI16(w.box_x + w.velocity_x),
     box_y |-> WrapI16(w.box_y + w.velocity_y),
     velocity_x |-> Reflect(w.box_x, w.velocity_x, WIDTH),
     velocity_y |-> Reflect(w.box_y, w.velocity_y, HEIGHT)]

\* World::update with wrapping arithmetic.
update(w) ==
    LET vx == Reflect(w.box_x, w.velocity_x, WIDTH)
        vy == Reflect(w.box_y, w.velocity_y, HEIGHT)
    IN  [box_x |-> WrapI16(w.box_x + vx), box_y |-> WrapI16(w.box_y + vy),
         velocity_x |-> vx, velocity_y |-> vy]

update_overflows(w) ==
    \/ AxisOverflows(w.box_x, w.velocity_x, WIDTH)
    \/ AxisOverflows(w.box_y, w.velocity_y, HEIGHT)

(***************************************************************************)
(* World::draw                                                             *)
(***************************************************************************)
\* Mutant of inside_the_box: the far edges tested with <=.
inside_the_box_Inclusive(i, w) ==
    LET x == WrapI16(i % WIDTH)
        y == WrapI16(i \div WIDTH)
    IN  /\ x >= w.box_x
        /\ x <= WrapI16(w.box_x + BOX_SIZE)
        /\ y >= w.box_y
        /\ y <= WrapI16(w.box_y + BOX_SIZE)

\* inside_the_box for the pixel with index i (the enumerate() index of its
\* chunk); `as i16` wraps.
inside_the_box(i, w) ==
    LET x == WrapI16(i % WIDTH)
        y == WrapI16(i \div WIDTH)
    IN  /\ x >= w.box_x
        /\ x < WrapI16(w.box_x + BOX_SIZE)
        /\ y >= w.box_y
        /\ y < WrapI16(w.box_y + BOX_SIZE)

rgba(i, w) == IF inside_the_box(i, w) THEN BoxColor ELSE BgColor

\* Mutants of draw: only the pixels of the box are written (the others keep
\* what they held), and the colour is added to what the pixel held.
draw_BoxOnly(f, len, w) ==
    [b \in DOMAIN f |->
        IF b \div 4 < len \div 4 /\ inside_the_box(b \div 4, w)
        THEN BoxColor[(b % 4) + 1] ELSE f[b]]

draw_Blend(f, len, w) ==
    [b \in DOMAIN f |->
        IF b \div 4 < len \div 4
        THEN (f[b] + rgba(b \div 4, w)[(b % 4) + 1]) % 256 ELSE f[b]]

\* World::draw on a buffer of len bytes of which f holds the observed ones:
\* chunks_exact_mut(4) yields len \div 4 chunks, chunk i being the bytes
\* 4i .. 4i+3, and leaves the len % 4 bytes after the last chunk alone.
draw(f, len, w) ==
    [b \in DOMAIN f |->
        IF b \div 4 < len \div 4 THEN rgba(b \div 4, w)[(b % 4) + 1] ELSE f[b]]

(***************************************************************************)
(* What the model observes of a pixel buffer.                              *)
(***************************************************************************)
FrameLen == WIDTH * HEIGHT * 4       \* Pixels::new(WIDTH, HEIGHT, ..)

PixelBytes(i) == {4 * i, 4 * i + 1, 4 * i + 2, 4 * i + 3}

\* The value the observed bytes of f give pixel i.
Pixel(f, i) == <<f[4 * i], f[4 * i + 1], f[4 * i + 2], f[4 * i + 3]>>

\* The pixels whose bytes f observes.
PixelsOf(f) == {b \div 4 : b \in DOMAIN f}

NoFrame == [b \in {} |-> 0]

SamplePixels ==
    {i \in 0..(WIDTH * HEIGHT - 1) :
        (i % WIDTH) % SampleStep = 0 /\ (i \div WIDTH) % SampleStep = 0}

SampleBytes == UNION {PixelBytes(i) : i \in SamplePixels}

(***************************************************************************)
(* Bookkeeping of the calls a handler makes.                               *)
(***************************************************************************)
NoEvent == [kind |-> "None", key |-> "None", size |-> <<0, 0>>]

Ev(kind) == [kind |-> kind, key |-> "None", size |-> <<0, 0>>]

NoCount == [redraw |-> 0, update |-> 0, draw |-> 0, render |-> 0, request |-> 0]

ErrOps == {"pixels_new:Err", "resize_surface:Err", "render:Err"}

Occurrences(s, names) == Cardinality({k \in DOMAIN s : s[k] \in names})

FirstErr(s) ==
    IF \E k \in DOMAIN s : s[k] \in ErrOps
    THEN CHOOSE k \in DOMAIN s :
            s[k] \in ErrOps /\ \A j \in DOMAIN s : s[j] \in ErrOps => k <= j
    ELSE Len(s) + 1

\* The event e has been handled with the calls s.
Handled(e, s) ==
    /\ event' = e
    /\ ops' = s
    /\ count' =
         [redraw  |-> count.redraw + (IF e.kind = "RedrawRequested" THEN 1 ELSE 0),
          update  |-> count.update + Occurrences(s, {"update"}),
          draw    |-> count.draw + Occurrences(s, {"draw"}),
          render  |-> count.render + Occurrences(s, {"render:Ok", "render:Err"}),
          request |-> count.request + Occurrences(s, {"request_redraw"})]
    /\ failure' = (failure \/ FirstErr(s) <= Len(s))
    /\ after_failure' = after_failure \cup
         {s[k] : k \in {j \in DOMAIN s : failure \/ j > FirstErr(s)}}

(***************************************************************************)
(* SpecUpdate: World::update from any box inside the surface.              *)
(***************************************************************************)
UnitVelocities == {-1, 1}

InitUpdate ==
    /\ world \in [box_x : 0..(WIDTH - BOX_SIZE), box_y : 0..(HEIGHT - BOX_SIZE),
                  velocity_x : UnitVelocities, velocity_y : UnitVelocities]
    /\ window = "None" /\ pixels = "None"
    /\ frame = NoFrame /\ frame_len = 0 /\ surface = <<0, 0>>
    /\ exiting = FALSE /\ loop = "starting" /\ redraw_requested = FALSE
    /\ prev = <<>> /\ event = NoEvent /\ ops = <<>> /\ count = NoCount
    /\ before = NoFrame /\ presented = NoFrame /\ failure = FALSE /\ after_failure = {}

\* One call of World::update.
UpdateCall ==
    /\ loop # "panicked"
    /\ \E overflow_checks \in BOOLEAN :
         IF update_overflows(world) /\ overflow_checks
         THEN /\ loop' = "panicked"
              /\ ops' = <<"update:panic">>
              /\ UNCHANGED <<world, prev>>
         ELSE /\ world' = update(world)
              /\ prev' = <<world>>
              /\ ops' = <<"update">>
              /\ UNCHANGED loop
    /\ UNCHANGED <<window, pixels, frame, frame_len, surface, exiting,
                   redraw_requested, event, count, before, presented,
                   failure, after_failure>>

NextUpdate == UpdateCall

SpecUpdate == InitUpdate /\ [][NextUpdate]_vars

(***************************************************************************)
(* SpecWorld: World::update applied repeatedly to World::new().            *)
(***************************************************************************)
InitWorld ==
    /\ world = NewWorld
    /\ window = "None" /\ pixels = "None"
    /\ frame = NoFrame /\ frame_len = 0 /\ surface = <<0, 0>>
    /\ exiting = FALSE /\ loop = "starting" /\ redraw_requested = FALSE
    /\ prev = <<>> /\ event = NoEvent /\ ops = <<>> /\ count = NoCount
    /\ before = NoFrame /\ presented = NoFrame /\ failure = FALSE /\ after_failure = {}

SpecWorld == InitWorld /\ [][NextUpdate]_vars

\* Redraw requests keep being handled: update keeps being called.
FairSpecWorld == SpecWorld /\ WF_vars(UpdateCall)

(***************************************************************************)
(* SpecI16: one World::update from boxes and velocities at the ends of the *)
(* i16 range and around the edges of the surface.                          *)
(***************************************************************************)
EdgeValues ==
    {I16_MIN, I16_MIN + 1, -1, 0, 1, WIDTH - BOX_SIZE, WIDTH - BOX_SIZE + 1,
     I16_MAX - BOX_SIZE, I16_MAX - BOX_SIZE + 1, I16_MAX}

EdgeVelocities == {I16_MIN, -1, 0, 1, I16_MAX}

InitI16 ==
    /\ world \in [box_x : EdgeValues, box_y : EdgeValues,
                  velocity_x : EdgeVelocities, velocity_y : EdgeVelocities]
    /\ window = "None" /\ pixels = "None"
    /\ frame = NoFrame /\ frame_len = 0 /\ surface = <<0, 0>>
    /\ exiting = FALSE /\ loop = "starting" /\ redraw_requested = FALSE
    /\ prev = <<>> /\ event = NoEvent /\ ops = <<>> /\ count = NoCount
    /\ before = NoFrame /\ presented = NoFrame /\ failure = FALSE /\ after_failure = {}

\* The first call of World::update.
FirstUpdateCall == ops = <<>> /\ UpdateCall

SpecI16 == InitI16 /\ [][FirstUpdateCall]_vars

(***************************************************************************)
(* SpecDraw: World::draw on a buffer of FrameLen bytes with any contents,  *)
(* observed at one pixel.                                                  *)
(***************************************************************************)
DrawBoxes == {<<24, 16>>, <<0, 0>>, <<256, 176>>, <<257, 177>>}

PriorPixels == {<<0, 0, 0, 0>>, BoxColor, BgColor}

InitDraw ==
    /\ \E p \in DrawBoxes :
         world = [box_x |-> p[1], box_y |-> p[2], velocity_x |-> 1, velocity_y |-> 1]
    /\ \E i \in 0..(WIDTH * HEIGHT - 1), prior \in PriorPixels :
         frame = [b \in PixelBytes(i) |-> prior[(b % 4) + 1]]
    /\ frame_len = FrameLen
    /\ window = "Some" /\ pixels = "Some" /\ surface = <<WIDTH, HEIGHT>>
    /\ exiting = FALSE /\ loop = "running" /\ redraw_requested = FALSE
    /\ prev = <<>> /\ event = NoEvent /\ ops = <<>> /\ count = NoCount
    /\ before = NoFrame /\ presented = NoFrame /\ failure = FALSE /\ after_failure = {}

\* One call of World::draw on the pixel buffer.
DrawCall ==
    /\ count.draw < MaxDraws
    /\ frame' = draw(frame, frame_len, world)
    /\ before' = frame
    /\ ops' = <<"draw">>
    /\ count' = [count EXCEPT !.draw = @ + 1]
    /\ UNCHANGED <<window, pixels, world, frame_len, surface, exiting, loop,
                   redraw_requested, prev, event, presented, failure,
                   after_failure>>

NextDraw == DrawCall

SpecDraw == InitDraw /\ [][NextDraw]_vars

(***************************************************************************)
(* Spec: the application.  main() builds the App and hands it to           *)
(* run_app, which calls resumed once and then window_event for each window *)
(* event.  event_loop.exit() only sets a flag: the loop reads it when the  *)
(* current iteration ends, so events already pending are still delivered.  *)
(***************************************************************************)
Sizes == {<<320, 240>>, <<640, 480>>}

Keys == {"Escape", "Enter"}

Init ==
    /\ window = "None" /\ pixels = "None" /\ world = NewWorld
    /\ frame = NoFrame /\ frame_len = 0 /\ surface = <<0, 0>>
    /\ exiting = FALSE /\ loop = "starting" /\ redraw_requested = FALSE
    /\ prev = <<>> /\ event = NoEvent /\ ops = <<>> /\ count = NoCount
    /\ before = NoFrame /\ presented = NoFrame /\ failure = FALSE /\ after_failure = {}

\* App::resumed.
Resumed ==
    /\ loop = "starting"
    /\ \E inner_size \in Sizes, new_err \in BOOLEAN, window_err \in BOOLEAN :
         IF window_err
         THEN \* create_window(..).unwrap() panics
              /\ loop' = "panicked"
              /\ Handled(Ev("Resumed"), <<"create_window:panic">>)
              /\ UNCHANGED <<window, pixels, frame, frame_len, surface, exiting,
                             redraw_requested>>
         ELSE /\ window' = "Some"
              /\ loop' = "running"
              /\ IF ~new_err
                 THEN /\ pixels' = "Some"
                      /\ frame' = [b \in SampleBytes |-> 0]
                      /\ frame_len' = FrameLen
                      /\ surface' = inner_size
                      /\ redraw_requested' = TRUE
                      /\ Handled(Ev("Resumed"),
                                 <<"create_window", "pixels_new:Ok", "request_redraw">>)
                      /\ UNCHANGED exiting
                 ELSE /\ pixels' = "None"
                      /\ exiting' = TRUE
                      /\ Handled(Ev("Resumed"),
                                 <<"create_window", "pixels_new:Err", "exit">>)
                      /\ UNCHANGED <<frame, frame_len, surface, redraw_requested>>
    /\ UNCHANGED <<world, prev, before, presented>>

\* The event loop may call window_event.
Dispatching == loop = "running" /\ window = "Some"

\* window_event: WindowEvent::CloseRequested.
CloseRequested ==
    /\ Dispatching
    /\ exiting' = TRUE
    /\ Handled(Ev("CloseRequested"), <<"exit">>)
    /\ UNCHANGED <<window, pixels, world, frame, frame_len, surface, loop,
                   redraw_requested, prev, before, presented>>

\* window_event: WindowEvent::RedrawRequested.
RedrawRequested ==
    /\ Dispatching
    /\ count.redraw < MaxRedraws
    /\ \E overflow_checks \in BOOLEAN, render_err \in BOOLEAN :
         IF update_overflows(world) /\ overflow_checks
         THEN /\ loop' = "panicked"
              /\ Handled(Ev("RedrawRequested"), <<"update:panic">>)
              /\ redraw_requested' = FALSE
              /\ UNCHANGED <<world, prev, frame, before, presented, exiting>>
         ELSE /\ world' = update(world)
              /\ prev' = <<world>>
              /\ IF pixels = "None"
                 THEN \* self.pixels.as_mut().unwrap() panics
                      /\ loop' = "panicked"
                      /\ Handled(Ev("RedrawRequested"), <<"update", "unwrap:panic">>)
                      /\ redraw_requested' = FALSE
                      /\ UNCHANGED <<frame, before, presented, exiting>>
                 ELSE /\ frame' = draw(frame, frame_len, world')
                      /\ before' = frame
                      /\ redraw_requested' = TRUE
                      /\ UNCHANGED loop
                      /\ IF ~render_err
                         THEN /\ presented' = frame'
                              /\ Handled(Ev("RedrawRequested"),
                                         <<"update", "draw", "render:Ok",
                                           "request_redraw">>)
                              /\ UNCHANGED exiting
                         ELSE /\ exiting' = TRUE
                              /\ Handled(Ev("RedrawRequested"),
                                         <<"update", "draw", "render:Err", "exit",
                                           "request_redraw">>)
                              /\ UNCHANGED presented
    /\ UNCHANGED <<window, pixels, frame_len, surface>>

\* Mutant of Resized: the pixel buffer is resized with the surface
\* (resize_buffer called with the size of the window).
Resized_Buffer ==
    /\ Dispatching
    /\ pixels = "Some"
    /\ \E size \in Sizes :
         /\ surface' = size
         /\ frame_len' = size[1] * size[2] * 4
         /\ Handled([kind |-> "Resized", key |-> "None", size |-> size],
                    <<"resize_surface:Ok">>)
    /\ UNCHANGED <<window, pixels, world, frame, exiting, loop,
                   redraw_requested, prev, before, presented>>

\* window_event: WindowEvent::Resized(size).
Resized ==
    /\ Dispatching
    /\ \E size \in Sizes, resize_err \in BOOLEAN :
         LET e == [kind |-> "Resized", key |-> "None", size |-> size]
         IN  IF pixels = "None"
             THEN \* self.pixels.as_mut().unwrap() panics
                  /\ loop' = "panicked"
                  /\ Handled(e, <<"unwrap:panic">>)
                  /\ UNCHANGED <<surface, exiting>>
             ELSE /\ UNCHANGED loop
                  /\ IF ~resize_err
                     THEN /\ surface' = size
                          /\ Handled(e, <<"resize_surface:Ok">>)
                          /\ UNCHANGED exiting
                     ELSE /\ exiting' = TRUE
                          /\ Handled(e, <<"resize_surface:Err", "exit">>)
                          /\ UNCHANGED surface
    /\ UNCHANGED <<window, pixels, world, frame, frame_len, redraw_requested,
                   prev, before, presented>>

\* Mutant of KeyboardInput: every key exits.
KeyboardInput_AnyKey ==
    /\ Dispatching
    /\ \E key \in Keys :
         /\ exiting' = TRUE
         /\ Handled([kind |-> "KeyboardInput", key |-> key, size |-> <<0, 0>>],
                    <<"exit">>)
    /\ UNCHANGED <<window, pixels, world, frame, frame_len, surface, loop,
                   redraw_requested, prev, before, presented>>

\* window_event: WindowEvent::KeyboardInput.
KeyboardInput ==
    /\ Dispatching
    /\ \E key \in Keys :
         LET e == [kind |-> "KeyboardInput", key |-> key, size |-> <<0, 0>>]
         IN  IF key = "Escape"
             THEN exiting' = TRUE /\ Handled(e, <<"exit">>)
             ELSE Handled(e, <<>>) /\ UNCHANGED exiting
    /\ UNCHANGED <<window, pixels, world, frame, frame_len, surface, loop,
                   redraw_requested, prev, before, presented>>

\* window_event: any other event (the `_ => {}` arm).
OtherEvent ==
    /\ Dispatching
    /\ Handled(Ev("Focused"), <<>>)
    /\ UNCHANGED <<window, pixels, world, frame, frame_len, surface, exiting,
                   loop, redraw_requested, prev, before, presented>>

\* run_app returns: the loop has read the exit flag.
LoopExit ==
    /\ loop = "running"
    /\ exiting
    /\ loop' = "stopped"
    /\ UNCHANGED <<window, pixels, world, frame, frame_len, surface, exiting,
                   redraw_requested, prev, event, ops, count, before,
                   presented, failure, after_failure>>

Next ==
    \/ Resumed
    \/ RedrawRequested
    \/ Resized
    \/ CloseRequested
    \/ KeyboardInput
    \/ OtherEvent
    \/ LoopExit

Spec == Init /\ [][Next]_vars

\* The loop ends its iteration, and with it reads the exit flag, after
\* finitely many events.
FairSpec == Spec /\ WF_vars(LoopExit)

(***************************************************************************)
(* Claims about World::update.                                             *)
(***************************************************************************)
Updated == Len(prev) = 1

\* C1: from any box that starts inside the surface with unit velocity, every
\* state reached by updates has box_x in [-1, WIDTH] and box_y in
\* [-1, HEIGHT].
C1_PositionBounded ==
    /\ world.box_x \in (-1)..WIDTH
    /\ world.box_y \in (-1)..HEIGHT

\* An update has driven the box to -1 on x and one past the far edge on y.
C1_Witness ==
    /\ Updated
    /\ world.box_x = -1
    /\ world.box_y = HEIGHT - BOX_SIZE + 1

\* C2: an update called with box_x = WIDTH - BOX_SIZE and velocity_x = 1
\* leaves velocity_x = -1 and box_x = WIDTH - BOX_SIZE - 1, and likewise for
\* y with HEIGHT.
C2_RightEdgeReflects ==
    Updated =>
        /\ (prev[1].box_x = WIDTH - BOX_SIZE /\ prev[1].velocity_x = 1)
              => (world.velocity_x = -1 /\ world.box_x = WIDTH - BOX_SIZE - 1)
        /\ (prev[1].box_y = HEIGHT - BOX_SIZE /\ prev[1].velocity_y = 1)
              => (world.velocity_y = -1 /\ world.box_y = HEIGHT - BOX_SIZE - 1)

\* C3: an update called with box_x = 0 and velocity_x = -1 leaves
\* velocity_x = 1 and box_x = 1, and likewise for y.
C3_LeftEdgeReflects ==
    Updated =>
        /\ (prev[1].box_x = 0 /\ prev[1].velocity_x = -1)
              => (world.velocity_x = 1 /\ world.box_x = 1)
        /\ (prev[1].box_y = 0 /\ prev[1].velocity_y = -1)
              => (world.velocity_y = 1 /\ world.box_y = 1)

\* An update has been called with the box at 0 and moving to -1 on both axes.
C3_Witness ==
    /\ Updated
    /\ prev[1].box_x = 0 /\ prev[1].velocity_x = -1
    /\ prev[1].box_y = 0 /\ prev[1].velocity_y = -1

\* C4: one update negates vx iff x <= 0 or x + S > W and vy iff y <= 0 or
\* y + S > H, both read from the position the call started with, and then
\* moves each axis by its possibly negated velocity; each axis's result is a
\* function of that axis alone.
C4_AxisResult(x, v, limit, x1, v1) ==
    /\ v1 = (IF x <= 0 \/ x + BOX_SIZE > limit THEN -v ELSE v)
    /\ x1 = x + v1

C4_UpdatePolicy ==
    Updated =>
        /\ C4_AxisResult(prev[1].box_x, prev[1].velocity_x, WIDTH,
                         world.box_x, world.velocity_x)
        /\ C4_AxisResult(prev[1].box_y, prev[1].velocity_y, HEIGHT,
                         world.box_y, world.velocity_y)

\* An update has negated the x velocity at the near edge and the y velocity
\* one past the far edge.
C4_Witness ==
    /\ Updated
    /\ prev[1].box_x = 0 /\ world.velocity_x = -prev[1].velocity_x
    /\ prev[1].box_y = HEIGHT - BOX_SIZE + 1
    /\ world.velocity_y = -1 /\ prev[1].velocity_y = 1

(***************************************************************************)
(* Claims about World::draw.                                               *)
(***************************************************************************)
Drawn == count.draw >= 1

PixelAt(x, y) == y * WIDTH + x

\* C5: after draw, the pixel with index i, at x = i % WIDTH and
\* y = i \div WIDTH, holds the box colour iff box_x <= x < box_x + BOX_SIZE and
\* box_y <= y < box_y + BOX_SIZE, and the background colour otherwise, also
\* where the box reaches past the surface; for the box at (24,16), the pixels
\* (24,16) and (87,79) hold the box colour and (0,0) and (319,239) the
\* background colour.
C5_Raster ==
    Drawn =>
        \A i \in PixelsOf(frame) :
            LET x == i % WIDTH
                y == i \div WIDTH
                member == /\ world.box_x <= x /\ x < world.box_x + BOX_SIZE
                          /\ world.box_y <= y /\ y < world.box_y + BOX_SIZE
            IN  /\ member => Pixel(frame, i) = <<94, 72, 232, 255>>
                /\ ~member => Pixel(frame, i) = <<72, 178, 232, 255>>
                /\ (world.box_x = 24 /\ world.box_y = 16) =>
                      /\ i \in {PixelAt(24, 16), PixelAt(87, 79)}
                            => Pixel(frame, i) = <<94, 72, 232, 255>>
                      /\ i \in {PixelAt(0, 0), PixelAt(319, 239)}
                            => Pixel(frame, i) = <<72, 178, 232, 255>>

\* The box at (257,177) reaches one pixel past the right and bottom edges:
\* a draw has turned the last pixel of the frame from background to box.
C5_Witness ==
    /\ count.draw = 1
    /\ world.box_x = WIDTH - BOX_SIZE + 1 /\ world.box_y = HEIGHT - BOX_SIZE + 1
    /\ PixelsOf(frame) = {PixelAt(WIDTH - 1, HEIGHT - 1)}
    /\ Pixel(before, PixelAt(WIDTH - 1, HEIGHT - 1)) = BgColor
    /\ Pixel(frame, PixelAt(WIDTH - 1, HEIGHT - 1)) = BoxColor

\* C6: after one draw on a buffer of WIDTH * HEIGHT * 4 bytes, whatever it
\* held, every byte of every pixel has been written and every pixel holds one
\* of the two colours.
C6_FullFrame ==
    Drawn =>
        /\ frame_len = WIDTH * HEIGHT * 4
        /\ \A b \in DOMAIN frame :
              \/ \A k \in PixelBytes(b \div 4) : frame[k] = BoxColor[(k % 4) + 1]
              \/ \A k \in PixelBytes(b \div 4) : frame[k] = BgColor[(k % 4) + 1]

\* A draw has written the background colour over the last pixel of the
\* frame, which held neither colour.
C6_Witness ==
    /\ count.draw = 1
    /\ PixelsOf(frame) = {WIDTH * HEIGHT - 1}
    /\ Pixel(before, WIDTH * HEIGHT - 1) = <<0, 0, 0, 0>>
    /\ Pixel(frame, WIDTH * HEIGHT - 1) = BgColor

\* A buffer that differs from f in every byte.
Inverted(f) == [b \in DOMAIN f |-> 255 - f[b]]

\* C7: a draw leaves the box state alone; its output is the one it gives on
\* a buffer with other contents; and a second draw with the same box state
\* leaves every byte as the first left it.
C7_Idempotent ==
    [][count'.draw = count.draw + 1 =>
          /\ world' = world
          /\ frame' = draw(Inverted(frame), frame_len, world)
          /\ Drawn => frame' = frame]_vars

\* A second draw has been made, on a pixel the first had turned to the box
\* colour.
C7_Witness ==
    /\ count.draw = 2
    /\ frame = before
    /\ \E i \in PixelsOf(frame) : Pixel(frame, i) = BoxColor

(***************************************************************************)
(* Claims about the application handler.                                   *)
(***************************************************************************)
\* The calls of s that are among names, in order.
Only(s, names) == SelectSeq(s, LAMBDA op : op \in names)

FrameOps == {"update", "draw", "render:Ok", "render:Err", "request_redraw"}

\* C8: a handled RedrawRequested runs one update, one draw of the updated
\* state, one present and then one request_redraw, in that order; no other
\* event runs update or draw; and the updates made are as many as the
\* RedrawRequested events handled.
C8_RedrawCycle ==
    /\ event.kind = "RedrawRequested" =>
          /\ Only(ops, FrameOps) \in
                {<<"update", "draw", "render:Ok", "request_redraw">>,
                 <<"update", "draw", "render:Err", "request_redraw">>}
          /\ frame = draw(before, frame_len, world)
          /\ redraw_requested
    /\ event.kind # "RedrawRequested" => Only(ops, {"update", "draw"}) = <<>>
    /\ count.update = count.redraw
    /\ count.draw = count.redraw

\* C9: once Pixels::new, resize_surface or render has failed, exit has been
\* requested and no update, draw, present or redraw request is made, nor is
\* the failed operation called again.
C9_FailFast ==
    failure =>
        /\ exiting
        /\ after_failure \subseteq {"exit", "unwrap:panic", "update:panic"}

\* The event loop has called window_event in this step; event' is the event.
WindowEventStep == loop = "running" /\ loop' # "stopped"

ExitEvent(e) ==
    \/ e.kind = "CloseRequested"
    \/ e.kind = "KeyboardInput" /\ e.key = "Escape"

\* C10: CloseRequested and a KeyboardInput with the Escape key request exit;
\* any other window event in which no external operation fails leaves the
\* exit flag as it was; and once exit is requested the loop stops.
C10_ExitRequests ==
    /\ [][WindowEventStep =>
            /\ ExitEvent(event') => exiting'
            /\ (~ExitEvent(event') /\ FirstErr(ops') > Len(ops'))
                  => exiting' = exiting]_vars
    /\ exiting ~> (loop \in {"stopped", "panicked"})

\* The Escape key has been pressed with no failure before it, and the loop
\* has stopped.
C10_Witness ==
    /\ event.kind = "KeyboardInput" /\ event.key = "Escape"
    /\ ~failure
    /\ exiting
    /\ loop = "stopped"

(***************************************************************************)
(* Claims about the width of the box state.                                *)
(***************************************************************************)
InI16(v) == -32768 <= v /\ v <= 32767

\* What one axis of an update computes, in exact arithmetic, is an i16: the
\* sum in the far-edge test (evaluated when pos > 0), the negated velocity
\* and the moved position.
C11_AxisExact(pos, vel, limit) ==
    LET flips == pos <= 0 \/ pos + BOX_SIZE > limit
        vel1 == IF flips THEN -vel ELSE vel
    IN  /\ pos > 0 => InI16(pos + BOX_SIZE)
        /\ InI16(vel1)
        /\ InI16(pos + vel1)

C12_ResizeOnlySurface ==
    /\ [](pixels = "Some" => frame_len = 320 * 240 * 4)
    /\ [][event'.kind = "Resized" =>
            /\ world' = world
            /\ frame' = frame /\ frame_len' = frame_len
            /\ count'.update = count.update /\ count'.draw = count.draw
            /\ Only(ops', {"update", "draw"}) = <<>>]_vars

\* After one frame was drawn the surface has been resized to 640 x 480: the
\* box is where that frame's update left it and the buffer is that of
\* 320 x 240 pixels.
C12_Witness ==
    /\ event.kind = "Resized" /\ event.size = <<640, 480>>
    /\ ops = <<"resize_surface:Ok">>
    /\ surface = <<640, 480>>
    /\ count.draw = 1 /\ count.update = 1
    /\ world = update(NewWorld)
    /\ frame_len = 320 * 240 * 4

(***************************************************************************)
(* Claims about the box of the program, from World::new().                 *)
(***************************************************************************)
PastEdgeX(w) == w.box_x + BOX_SIZE > WIDTH

PastEdgeY(w) == w.box_y + BOX_SIZE > HEIGHT

\* C13: the box reaches positions past the far edge of the surface; there it
\* is one pixel past the edge, and the update after the one that took it
\* there brings it back inside on that axis.
C13_OvershootOneFrame ==
    /\ PastEdgeX(world) => world.box_x + BOX_SIZE = WIDTH + 1
    /\ PastEdgeY(world) => world.box_y + BOX_SIZE = HEIGHT + 1
    /\ Updated =>
          /\ PastEdgeX(prev[1]) => ~PastEdgeX(world)
          /\ PastEdgeY(prev[1]) => ~PastEdgeY(world)

\* The box was one pixel past the right edge and the next update has brought
\* it back to the edge.
C13_Witness ==
    /\ Updated
    /\ prev[1].box_x = WIDTH - BOX_SIZE + 1
    /\ world.box_x = WIDTH - BOX_SIZE
    /\ world.velocity_x = -1

\* C14: both components of the velocity are -1 or 1.
C14_UnitVelocity ==
    /\ world.velocity_x \in {-1, 1}
    /\ world.velocity_y \in {-1, 1}

\* Updates have negated both components of the velocity.
C14_Witness ==
    /\ Updated
    /\ world.velocity_x = -1
    /\ world.velocity_y = -1

\* C16: the box position is never negative and is at most one pixel past
\* the far edge, 0 <= box_x <= 257 and 0 <= box_y <= 177, so that every sum
\* update and draw compute is an i16.
C16_PositionRange ==
    /\ 0 <= world.box_x /\ world.box_x <= 257
    /\ 0 <= world.box_y /\ world.box_y <= 177
    /\ loop # "panicked"
    \* update: the edge tests, the negations and the moves
    /\ InI16(world.box_x + BOX_SIZE) /\ InI16(world.box_y + BOX_SIZE)
    /\ InI16(-world.velocity_x) /\ InI16(-world.velocity_y)
    /\ InI16(world.box_x + world.velocity_x) /\ InI16(world.box_x - world.velocity_x)
    /\ InI16(world.box_y + world.velocity_y) /\ InI16(world.box_y - world.velocity_y)
    /\ ~update_overflows(world)
    \* draw: the coordinates of the last pixel, cast to i16
    /\ InI16((FrameLen \div 4 - 1) % WIDTH) /\ InI16((FrameLen \div 4 - 1) \div WIDTH)

\* The box has come back to the left edge, and is at the top one too.
C16_Witness ==
    /\ Updated
    /\ world.box_x = 0
    /\ world.box_y = 0

\* The latest update negated the velocity on the axis.
FlippedX == Updated /\ world.velocity_x # prev[1].velocity_x

FlippedY == Updated /\ world.velocity_y # prev[1].velocity_y

\* C17: no two consecutive updates negate the velocity of the same axis, and
\* while updates keep being made each axis's velocity is negated again and
\* again.
C17_KeepsBouncing ==
    /\ [][~(FlippedX /\ FlippedX') /\ ~(FlippedY /\ FlippedY')]_vars
    /\ []<>FlippedX
    /\ []<>FlippedY

\* An update has negated the x velocity at the left edge, after the box had
\* bounced off the right one.
C17_Witness ==
    /\ FlippedX
    /\ prev[1].box_x = 0
    /\ world.velocity_x = 1
    /\ world.box_x = 1

\* C15: whenever a RedrawRequested or Resized event is handled the pixels
\* handle is Some, and for RedrawRequested the window handle too, so that no
\* unwrap in window_event panics; also after resumed has left pixels None.
C15_HandlesPopulated ==
    /\ event.kind \in {"RedrawRequested", "Resized"} =>
          /\ pixels = "Some"
          /\ "unwrap:panic" \notin {ops[i] : i \in DOMAIN ops}
    /\ event.kind = "RedrawRequested" => window = "Some"

====
